---------------------------- MODULE Spec2Model ----------------------------
(***************************************************************************)
(* State-machine model of the request handlers of app/routes.py            *)
(* (create_new_cluster, update_service_account) together with the          *)
(* relational tables of app/models.py and the Redis lock the create        *)
(* handler takes.                                                          *)
(*                                                                         *)
(* Modelling conventions                                                   *)
(*  - Each HTTP request is a process.  A process step is one awaited call  *)
(*    of the handler (a database statement or commit, a lock call, an HTTP *)
(*    call, a process spawn) together with the straight-line code around   *)
(*    it.  Requests interleave at these awaits.                            *)
(*  - clusters, executions and auditlogs hold the COMMITTED rows, i.e.     *)
(*    what another session can read.  Work a session has done but not yet  *)
(*    committed is carried by the position of its process.                 *)
(*  - The handlers are the authority for the attributes they use: the      *)
(*    column routes.py calls cluster_name is the unique column of          *)
(*    models.Cluster, and the request object carries the kubeconfig /      *)
(*    kubeconfig_vault_path fields the handlers read.                      *)
(*  - The database is the SQLite file create_app configures: UNIQUE is     *)
(*    enforced, FOREIGN KEY is not, and an INTEGER PRIMARY KEY column gets *)
(*    one more than the largest id in the table.                           *)
(*  - A collaborator call may fail (the environment decides); faulted[r]   *)
(*    records that request r was hit by such a failure.                    *)
(***************************************************************************)
EXTENDS Integers, FiniteSets, Sequences, TLC

\* At most this many requests of one run are disturbed by the environment: hit
\* by a failing collaborator call, or outlived by their lock.
MaxFaultyRequests == 1

\* The create-cluster requests and the update_service_account requests.
Creators == {1, 2}
Updaters == {3}
\* The requests to GET /check_status and GET /check_cluster_status/<name>.
Readers == {4, 5}
\* The requests to GET /health.
Probes == {6, 7}
Requests == Creators \cup Updaters \cup Readers \cup Probes

\* Cluster names a request may carry.  "a--b" is rejected by the validators.
ValidNames == {"a", "b"}
NameInputs == ValidNames \cup {"a--b"}
ServiceAccounts == {"sa1", "sa2"}
\* Service account sent by create requests.
CreateServiceAccount == "sa1"

\* Keys of the response cache: a cluster name for check_cluster_status, the
\* request path for the health check.
CacheKeys == NameInputs \cup {"/health"}

NoRow == 0
NoLockHolder == 0

\* Readings of the wall clock (datetime.now); the table is created at 2.
Times == {1, 2, 3}

VARIABLES
    clusters,     \* committed Cluster rows
    executions,   \* committed PlaybookExecution rows
    auditlogs,    \* committed AuditLog rows
    lock,         \* Redis key cluster_creation:<name> -> token of its holder
    processes,    \* the playbook processes that were started
    pc,           \* position of each request in its handler
    req,          \* the request's payload
    existing,     \* handler local: id of the row found by the existence check
    cid,          \* handler local: cluster.id
    eid,          \* handler local: execution.id
    err,          \* the exception that is propagating, "none" if none
    status,       \* HTTP status of the response, 0 while there is none
    faulted,      \* the environment made a collaborator call of r fail
    lost,         \* r's lock expired (TTL) while r was still in its section
    fx,           \* per request: number of calls / writes it has made
    loadedSa,     \* handler local: cluster.service_account as loaded
    proc,         \* handler local: pid of the process the request started
    seen,         \* what the inventory and the secret store answered to r
    now,          \* the wall clock, datetime.now(timezone.utc)
    memo,         \* Redis: cached responses, by key
    reported,     \* per request: the payload answered by a status or health view
    init          \* AnsibleInitializer.initialize(): position, attempts, steps run

vars == <<clusters, executions, auditlogs, lock, processes, pc, req,
          existing, cid, eid, err, status, faulted, lost, fx, loadedSa,
          proc, seen, now, memo, reported, init>>

db == <<clusters, executions, auditlogs>>
locals == <<existing, cid, eid, loadedSa, proc, seen, reported>>

-----------------------------------------------------------------------------
(* Pure helpers                                                            *)

NoFx == [acq |-> 0, got |-> 0, rel |-> 0, inv |-> 0, vault |-> 0, launch |-> 0,
         writes |-> 0, audits |-> 0, logfail |-> 0]

NoReq == [name |-> "a", force |-> FALSE, kube |-> FALSE, path |-> FALSE,
          sa |-> CreateServiceAccount, auth |-> FALSE]

\* The payloads of POST /clusters that are tried: every well-formed one, one of
\* each kind the validators refuse, and one sent without a valid bearer token.
\* kube / path are bool(kubeconfig) / bool(kubeconfig_vault_path).
CreateInputs ==
    {[name |-> n, force |-> f, kube |-> k, path |-> ~k,
      sa |-> CreateServiceAccount, auth |-> TRUE] :
        n \in ValidNames, f \in BOOLEAN, k \in BOOLEAN}
    \cup {[name |-> "a", force |-> FALSE, kube |-> k, path |-> k,
           sa |-> CreateServiceAccount, auth |-> TRUE] : k \in BOOLEAN}
    \cup {[name |-> "a--b", force |-> FALSE, kube |-> TRUE, path |-> FALSE,
           sa |-> CreateServiceAccount, auth |-> TRUE]}
    \cup {NoReq}

\* auth.py login_required: the token is verified before the handler runs.
Authenticated(q) == q.auth

\* schemas.py: name validators ("--" is refused).
ValidClusterName(n) == n \in ValidNames

\* Variant: a validator that also accepts a payload carrying both sources.
ValidKubeconfigSourceLax(kube, path) == kube \/ path

\* schemas.py: validate_kubeconfig_source.  kube / path are the truth values
\* bool(self.kubeconfig) and bool(self.kubeconfig_vault_path).
ValidKubeconfigSource(kube, path) == kube # path

ValidCreateRequest(q) ==
    ValidClusterName(q.name) /\ ValidKubeconfigSource(q.kube, q.path)

\* routes.py error handlers: exception class -> HTTP status.
StatusOf(e) ==
    CASE e = "pydantic"      -> 400
      [] e = "validation"    -> 400
      [] e = "auth"          -> 401
      [] e = "notfound"      -> 404
      [] e = "exists"        -> 409
      [] e = "ext_inventory" -> 503
      [] e = "ext_vault"     -> 503
      [] OTHER               -> 500

\* Variant: a handler without the existence check.
ClusterIdByNameBlind(n) == NoRow

\* Cluster.query.filter_by(cluster_name=n).first(): the row's id, NoRow if none.
ClusterIdByName(n) ==
    IF \E c \in clusters : c.name = n
    THEN (CHOOSE c \in clusters : c.name = n).id
    ELSE NoRow

\* Variant: a lock that is granted whether or not the key is set.
LockFreeAlways(n) == TRUE

\* Variant: one key for all names.
LockFreeOfAnyName(n) == \A m \in ValidNames : lock[m] = NoLockHolder

\* redis lock on key cluster_creation:<name> (181, 184): the key is set only
\* if it does not exist.
LockFree(n) == lock[n] = NoLockHolder

\* Variant: a handler that treats every request as if force had been sent.
RefuseExistingNever(ex, force) == FALSE

\* routes.py 193-194: an existing row is refused unless force was sent.
RefuseExisting(ex, force) == ex # NoRow /\ ~force

\* Variant: the release at the end of the try body instead of in finally.
FinallySkipped == "outer_except"

\* routes.py 355: the finally clause every exit of the inner try passes through.
FinallyTarget == "release"

\* Variant: the row left to the column default of models.py, "pending".
NewClusterDefaultStatus(id, n, sa) ==
    [id |-> id, name |-> n, service_account |-> sa, status |-> "pending"]

\* routes.py 263-268: the row the create handler inserts.
NewCluster(id, n, sa) ==
    [id |-> id, name |-> n, service_account |-> sa, status |-> "creating"]

\* Variant: a name column without the unique constraint.
NameTakenNever(n) == FALSE

\* Variant: the command line stored when the row is created, before the launch.
NewExecutionWithCommand(id, c, playbook) ==
    [id |-> id, cluster_id |-> c, playbook_name |-> playbook,
     status |-> "running", pid |-> NoRow, command |-> "cmd",
     return_code |-> "none", completed_at |-> "none", start_time |-> now]

\* routes.py 273-296, 427-445: the row the handlers insert before the launch.
NewExecution(id, c, playbook) ==
    [id |-> id, cluster_id |-> c, playbook_name |-> playbook,
     status |-> "running", pid |-> NoRow, command |-> "",
     return_code |-> "none", completed_at |-> "none", start_time |-> now]

\* models.py: Cluster.name is unique=True.
NameTaken(n) == \E c \in clusters : c.name = n

ClusterExists(id) == \E c \in clusters : c.id = id
ExecutionExists(id) == \E e \in executions : e.id = id

\* __init__.py: sqlite without PRAGMA foreign_keys: references are not checked.
ForeignKeysEnforced == FALSE

\* Variant: the bulk delete committed on its own (autocommit).
VisibleAfterBulkDeleteAutocommit(E, id) == {e \in E : e.cluster_id # id}

\* Rows another session can read after statement 202 of routes.py has run
\* inside the still open transaction: the bulk delete is not visible yet.
VisibleAfterBulkDelete(E, id) == E

\* Variant: relationships declared without a delete cascade.
RowsAfterDeleteNoCascade(R, id) == R

\* Effect of committing the force delete of cluster id: the row, and by the
\* bulk delete and the ORM cascade every execution and audit row of it.
ClustersAfterDelete(C, id) == {c \in C : c.id # id}
RowsAfterDelete(R, id) == {x \in R : x.cluster_id # id}

\* Nothing asked yet.
NoAnswer == [inv |-> "none", vault |-> "none"]

\* Ways the inventory lookup fails: status 404, another status, ClientError,
\* asyncio.TimeoutError (routes.py 214-227).
InventoryFailures == {"404", "500", "client_error", "timeout"}

\* Variant: every failing inventory lookup reported as an external failure.
InventoryErrorAlwaysExternal(o) == "ext_inventory"

\* routes.py 214-227: the exception raised for a failing inventory lookup.
InventoryError(o) == IF o = "404" THEN "notfound" ELSE "ext_inventory"

\* Ways the credentials from the secret store fail: the token file cannot be
\* read (236), the read raises (254), the secret holds no kubeconfig (250).
VaultFailures == {"token", "read", "no_kubeconfig"}

\* routes.py 232-256: the exception that leaves the credential block.  The
\* ValidationError of line 251 is raised inside the try of line 242, whose
\* except Exception clause (254-256) replaces it.
VaultError(o) == "ext_vault"

\* Nothing reported, nothing memoized.
NoReport == {}

\* init_playbooks.py 179: @retry(stop=stop_after_attempt(3), ...).
RetryAttempts == 3

\* The initializer before initialize() is called: no attempt made, no step run.
NotInitialized ==
    [pc |-> "idle", log |-> << >>, default_repo |-> FALSE, galaxy |-> FALSE,
     verified |-> FALSE, saved |-> FALSE]

Disturbed(q) == faulted[q] \/ lost[q]

FaultAllowed(r) ==
    Disturbed(r) \/ Cardinality({q \in Requests : Disturbed(q)}) < MaxFaultyRequests

\* models.py: id = db.Column(db.Integer, primary_key=True) on SQLite.
NextRowId(T) ==
    IF T = {} THEN 1
    ELSE (CHOOSE x \in T : \A y \in T : y.id <= x.id).id + 1

\* run_playbook_async (131-158): the process asyncio.create_subprocess_exec
\* starts; the handle is returned, nothing awaits its exit.
NewProcess == [pid |-> Cardinality(processes) + 1, running |-> TRUE]

Pids == {p.pid : p \in processes}

Bump(r, f) == [fx EXCEPT ![r][f] = @ + 1]

AuditRow(action) ==
    [id |-> NextRowId(auditlogs), action |-> action, status |-> "error",
     cluster_id |-> NoRow]

-----------------------------------------------------------------------------
\* The table holds cluster "a", created earlier; "b" is not in it.
InitialClusters ==
    {[id |-> 1, name |-> "a", service_account |-> "sa1", status |-> "creating"]}

Init ==
    /\ clusters = InitialClusters
    /\ executions = {[id |-> 1, cluster_id |-> 1,
                      playbook_name |-> "create_cluster.yml",
                      status |-> "running", pid |-> 1, command |-> "cmd",
                      return_code |-> "none", completed_at |-> "none",
                      start_time |-> 2]}
    /\ auditlogs = {[id |-> 1, action |-> "create_cluster",
                     status |-> "success", cluster_id |-> 1]}
    /\ lock = [n \in ValidNames |-> NoLockHolder]
    /\ processes = {[pid |-> 1, running |-> TRUE]}
    /\ pc = [r \in Requests |-> "idle"]
    /\ req = [r \in Requests |-> NoReq]
    /\ existing = [r \in Requests |-> NoRow]
    /\ cid = [r \in Requests |-> NoRow]
    /\ eid = [r \in Requests |-> NoRow]
    /\ err = [r \in Requests |-> "none"]
    /\ status = [r \in Requests |-> 0]
    /\ faulted = [r \in Requests |-> FALSE]
    /\ lost = [r \in Requests |-> FALSE]
    /\ fx = [r \in Requests |-> NoFx]
    /\ loadedSa = [r \in Requests |-> "none"]
    /\ proc = [r \in Requests |-> NoRow]
    /\ seen = [r \in Requests |-> NoAnswer]
    /\ now = 2
    /\ memo = [n \in CacheKeys |-> NoReport]
    /\ reported = [r \in Requests |-> NoReport]
    /\ init = NotInitialized

\* The handler raises exception e at a place covered by the inner try.
Raise(r, e, to) ==
    /\ err' = [err EXCEPT ![r] = e]
    /\ pc' = [pc EXCEPT ![r] = to]

Goto(r, to) ==
    /\ pc' = [pc EXCEPT ![r] = to]
    /\ UNCHANGED err

-----------------------------------------------------------------------------
(* POST /clusters: create_new_cluster, routes.py 161-363                   *)

\* login_required, then CreateClusterRequest(**request.json) (line 178).
\* A request whose token is refused never has its payload parsed.
CStart(r) ==
    /\ pc[r] = "idle"
    /\ \E q \in CreateInputs :
         /\ req' = [req EXCEPT ![r] = q]
         /\ IF ~Authenticated(q)
            THEN /\ pc' = [pc EXCEPT ![r] = "done"]
                 /\ err' = [err EXCEPT ![r] = "auth"]
                 /\ status' = [status EXCEPT ![r] = StatusOf("auth")]
            ELSE /\ status' = status
                 /\ IF ValidCreateRequest(q)
                    THEN Goto(r, "acquire")
                    ELSE Raise(r, "pydantic", "outer_except")
    /\ UNCHANGED <<init, now, memo, db, lock, processes, locals, faulted, lost, fx>>

\* lock.acquire(blocking=True, blocking_timeout=10) returns True (line 185).
CAcquire(r) ==
    /\ pc[r] = "acquire"
    /\ LockFree(req[r].name)
    /\ lock' = [lock EXCEPT ![req[r].name] = r]
    /\ fx' = [fx EXCEPT ![r].acq = @ + 1, ![r].got = @ + 1]
    /\ Goto(r, "check")
    /\ UNCHANGED <<init, now, memo, db, processes, req, locals, status, faulted, lost>>

\* Variant: the lock taken inside the inner try, so that finally covers it.
LockRefusedInsideTry == "inner_except"

\* routes.py 185-190: the acquire precedes the inner try; a refusal is raised
\* to the outer except clause only.
LockRefusedTarget == "outer_except"

\* lock.acquire returns False after the wait window: ValidationError (186).
CAcquireTimeout(r) ==
    /\ pc[r] = "acquire"
    /\ ~LockFree(req[r].name)
    /\ fx' = Bump(r, "acq")
    /\ Raise(r, "validation", LockRefusedTarget)
    /\ UNCHANGED <<init, now, memo, db, lock, processes, req, locals, status, faulted, lost>>

\* lock.acquire raises (Redis unreachable).
CAcquireError(r) ==
    /\ pc[r] = "acquire"
    /\ FaultAllowed(r)
    /\ faulted' = [faulted EXCEPT ![r] = TRUE]
    /\ fx' = Bump(r, "acq")
    /\ Raise(r, "internal", "outer_except")
    /\ UNCHANGED <<init, now, memo, db, lock, processes, req, locals, status, lost>>

\* Existence check and the force / no-force branch (lines 192-199).
CCheckExisting(r) ==
    /\ pc[r] = "check"
    /\ LET ex == ClusterIdByName(req[r].name)
       IN /\ existing' = [existing EXCEPT ![r] = ex]
          /\ IF RefuseExisting(ex, req[r].force)
             THEN Raise(r, "exists", "inner_except")
             ELSE IF ex # NoRow
                  THEN Goto(r, "del_exec")
                  ELSE Goto(r, "inventory")
    /\ UNCHANGED <<init, now, memo, reported, db, lock, processes, req, cid, eid, loadedSa, proc, seen, status,
                   faulted, lost, fx>>

\* PlaybookExecution.query.filter_by(cluster_id=existing.id).delete() (202),
\* inside the transaction opened at line 200.
CDeleteExecutions(r) ==
    /\ pc[r] = "del_exec"
    /\ executions' = VisibleAfterBulkDelete(executions, existing[r])
    /\ Goto(r, "del_cluster")
    /\ UNCHANGED <<init, now, memo, clusters, auditlogs, lock, processes, req, locals,
                   status, faulted, lost, fx>>

\* db.session.delete(existing) (203): pending in the session.
CDeleteCluster(r) ==
    /\ pc[r] = "del_cluster"
    /\ Goto(r, "commit_delete")
    /\ UNCHANGED <<init, now, memo, db, lock, processes, req, locals, status, faulted, lost, fx>>

\* db.session.commit() (204): both deletes, and the cascade, become visible.
CCommitDelete(r) ==
    /\ pc[r] = "commit_delete"
    /\ clusters' = ClustersAfterDelete(clusters, existing[r])
    /\ executions' = RowsAfterDelete(executions, existing[r])
    /\ auditlogs' = RowsAfterDelete(auditlogs, existing[r])
    /\ fx' = Bump(r, "writes")
    /\ Goto(r, "inventory")
    /\ UNCHANGED <<init, now, memo, lock, processes, req, locals, status, faulted, lost>>

\* The worker dies while the delete transaction is open: nothing of it is
\* committed, no handler runs, the lock is left to its TTL.
CCrash(r) ==
    /\ pc[r] \in {"del_cluster", "commit_delete"}
    /\ FaultAllowed(r)
    /\ faulted' = [faulted EXCEPT ![r] = TRUE]
    /\ Goto(r, "crashed")
    /\ UNCHANGED <<init, now, memo, db, lock, processes, req, locals, status, lost, fx>>

\* Inventory lookup (lines 207-227): 200.
CInventoryOk(r) ==
    /\ pc[r] = "inventory"
    /\ fx' = Bump(r, "inv")
    /\ seen' = [seen EXCEPT ![r].inv = "200"]
    /\ Goto(r, "creds")
    /\ UNCHANGED <<init, now, memo, reported, db, lock, processes, req, existing, cid, eid, loadedSa, proc, status,
                   faulted, lost>>

\* Inventory lookup: 404, or another status / ClientError / timeout.
CInventoryFail(r) ==
    /\ pc[r] = "inventory"
    /\ FaultAllowed(r)
    /\ faulted' = [faulted EXCEPT ![r] = TRUE]
    /\ fx' = Bump(r, "inv")
    /\ \E o \in InventoryFailures :
         /\ seen' = [seen EXCEPT ![r].inv = o]
         /\ Raise(r, InventoryError(o), "inner_except")
    /\ UNCHANGED <<init, now, memo, reported, db, lock, processes, req, existing, cid, eid, loadedSa, proc, status,
                   lost>>

\* Credentials (lines 230-260), the source resolves.
CCredentialsOk(r) ==
    /\ pc[r] = "creds"
    /\ fx' = IF req[r].path THEN Bump(r, "vault") ELSE fx
    /\ seen' = IF req[r].path THEN [seen EXCEPT ![r].vault = "ok"] ELSE seen
    /\ Goto(r, "insert_cluster")
    /\ UNCHANGED <<init, now, memo, reported, db, lock, processes, req, existing, cid, eid, loadedSa, proc, status,
                   faulted, lost>>

\* Credentials from the secret store fail (232-256).
CCredentialsFail(r) ==
    /\ pc[r] = "creds"
    /\ req[r].path
    /\ FaultAllowed(r)
    /\ faulted' = [faulted EXCEPT ![r] = TRUE]
    /\ fx' = Bump(r, "vault")
    /\ \E o \in VaultFailures :
         /\ seen' = [seen EXCEPT ![r].vault = o]
         /\ Raise(r, VaultError(o), "inner_except")
    /\ UNCHANGED <<init, now, memo, reported, db, lock, processes, req, existing, cid, eid, loadedSa, proc, status,
                   lost>>

\* Cluster(...) added and committed (lines 263-270).
CInsertCluster(r) ==
    /\ pc[r] = "insert_cluster"
    /\ IF NameTaken(req[r].name)
       THEN /\ Raise(r, "internal", "inner_except")
            /\ UNCHANGED <<clusters, cid, fx>>
       ELSE /\ clusters' = clusters \cup
                   {NewCluster(NextRowId(clusters), req[r].name, req[r].sa)}
            /\ cid' = [cid EXCEPT ![r] = NextRowId(clusters)]
            /\ fx' = Bump(r, "writes")
            /\ Goto(r, "insert_exec")
    /\ UNCHANGED <<init, now, memo, reported, executions, auditlogs, lock, processes, req, existing, eid,
                   loadedSa, proc, seen, status, faulted, lost>>

\* PlaybookExecution(...) added and committed (lines 273-298).
CInsertExecution(r) ==
    /\ pc[r] = "insert_exec"
    /\ IF ForeignKeysEnforced /\ ~ClusterExists(cid[r])
       THEN /\ Raise(r, "internal", "inner_except")
            /\ UNCHANGED <<executions, eid, fx>>
       ELSE /\ executions' = executions \cup
                   {NewExecution(NextRowId(executions), cid[r],
                                 "create_cluster.yml")}
            /\ eid' = [eid EXCEPT ![r] = NextRowId(executions)]
            /\ fx' = Bump(r, "writes")
            /\ Goto(r, "launch")
    /\ UNCHANGED <<init, now, memo, reported, clusters, auditlogs, lock, processes, req, existing, cid,
                   loadedSa, proc, seen, status, faulted, lost>>

\* run_playbook_async starts the process (lines 300-321).
CLaunch(r) ==
    /\ pc[r] = "launch"
    /\ processes' = processes \cup {NewProcess}
    /\ proc' = [proc EXCEPT ![r] = NewProcess.pid]
    /\ fx' = Bump(r, "launch")
    /\ Goto(r, "record_pid")
    /\ UNCHANGED <<init, now, memo, reported, db, lock, req, existing, cid, eid, loadedSa, seen, status,
                   faulted, lost>>

\* execution.command / execution.pid set and committed (322-324); the handler
\* then builds the 201 response and leaves the inner try through finally.
\* An UPDATE that matches no row is an error of the ORM (stale data).
CRecordPid(r) ==
    /\ pc[r] = "record_pid"
    /\ IF ExecutionExists(eid[r])
       THEN /\ executions' =
                 {IF e.id = eid[r]
                  THEN [e EXCEPT !.pid = proc[r], !.command = "cmd"]
                  ELSE e : e \in executions}
            /\ fx' = Bump(r, "writes")
            /\ Goto(r, "release")
       ELSE /\ Raise(r, "internal", "inner_except")
            /\ UNCHANGED <<executions, fx>>
    /\ UNCHANGED <<init, now, memo, clusters, auditlogs, lock, processes, req, locals,
                   status, faulted, lost>>

\* A database call or the process spawn inside the inner try raises.
CStepFails(r) ==
    /\ pc[r] \in {"check", "del_exec", "del_cluster", "commit_delete",
                  "insert_cluster", "insert_exec", "launch", "record_pid"}
    /\ FaultAllowed(r)
    /\ faulted' = [faulted EXCEPT ![r] = TRUE]
    /\ Raise(r, "internal", "inner_except")
    /\ UNCHANGED <<init, now, memo, db, lock, processes, req, locals, status, lost, fx>>

\* Variant: an except clause that re-raises without calling log_request.
WriteAuditSkipped(r, action) ==
    /\ auditlogs' = auditlogs
    /\ fx' = fx

\* log_request (93-105) commits one AuditLog row.
WriteAudit(r, action) ==
    /\ auditlogs' = auditlogs \cup {AuditRow(action)}
    /\ fx' = Bump(r, "audits")

\* except of the inner try (350-354): log_request, then re-raise.
CInnerExcept(r) ==
    /\ pc[r] = "inner_except"
    /\ WriteAudit(r, "create_cluster")
    /\ Goto(r, FinallyTarget)
    /\ UNCHANGED <<init, now, memo, clusters, executions, lock, processes, req, locals, status,
                   faulted, lost>>

\* log_request itself raises: that exception replaces the one being handled.
CInnerExceptFails(r) ==
    /\ pc[r] = "inner_except"
    /\ FaultAllowed(r)
    /\ faulted' = [faulted EXCEPT ![r] = TRUE]
    /\ fx' = Bump(r, "logfail")
    /\ Raise(r, "internal", FinallyTarget)
    /\ UNCHANGED <<init, now, memo, db, lock, processes, req, locals, status, lost>>

\* finally: await lock.release() (355-357).  Releasing a key that no longer
\* holds this request's token raises LockNotOwnedError, which replaces the
\* return value or the exception on its way out.
CRelease(r) ==
    /\ pc[r] = "release"
    /\ fx' = Bump(r, "rel")
    /\ LET owned == lock[req[r].name] = r
           e == IF owned THEN err[r] ELSE "internal"
       IN /\ lock' = IF owned THEN [lock EXCEPT ![req[r].name] = NoLockHolder]
                     ELSE lock
          /\ err' = [err EXCEPT ![r] = e]
          /\ IF e = "none"
             THEN /\ pc' = [pc EXCEPT ![r] = "done"]
                  /\ status' = [status EXCEPT ![r] = 201]
             ELSE /\ pc' = [pc EXCEPT ![r] = "outer_except"]
                  /\ status' = status
    /\ UNCHANGED <<init, now, memo, db, processes, req, locals, faulted, lost>>

\* except of the outer try (359-363): log_request, re-raise; the blueprint's
\* error handlers turn the exception into the response.
COuterExcept(r) ==
    /\ pc[r] = "outer_except"
    /\ WriteAudit(r, "create_cluster")
    /\ pc' = [pc EXCEPT ![r] = "done"]
    /\ status' = [status EXCEPT ![r] = StatusOf(err[r])]
    /\ UNCHANGED <<init, now, memo, clusters, executions, lock, processes, req, locals, err,
                   faulted, lost>>

COuterExceptFails(r) ==
    /\ pc[r] = "outer_except"
    /\ FaultAllowed(r)
    /\ faulted' = [faulted EXCEPT ![r] = TRUE]
    /\ err' = [err EXCEPT ![r] = "internal"]
    /\ pc' = [pc EXCEPT ![r] = "done"]
    /\ status' = [status EXCEPT ![r] = StatusOf("internal")]
    /\ fx' = Bump(r, "logfail")
    /\ UNCHANGED <<init, now, memo, db, lock, processes, req, locals, lost>>

\* The Redis key reaches its TTL (timeout=600, line 184) while still set.
LockExpires(n) ==
    /\ lock[n] # NoLockHolder
    /\ FaultAllowed(lock[n])
    /\ lost' = [lost EXCEPT ![lock[n]] = TRUE]
    /\ lock' = [lock EXCEPT ![n] = NoLockHolder]
    /\ UNCHANGED <<init, now, memo, db, processes, pc, req, locals, err, status, faulted, fx>>

\* Variant: an exit callback that completes the rows of the process.
RowsAfterExitCompleted(E, p) ==
    {IF e.pid = p
     THEN [e EXCEPT !.status = "completed", !.return_code = "0",
                    !.completed_at = "now"]
     ELSE e : e \in E}

\* routes.py 146-155: the handle of the started process is returned to the
\* handler, which stores its pid; nothing waits for the exit or is called
\* back by it, so the rows stay as they are.
RowsAfterExit(E, p) == E

\* A started playbook process exits.
ProcessExits(p) ==
    /\ p \in processes /\ p.running
    /\ processes' = (processes \ {p}) \cup {[p EXCEPT !.running = FALSE]}
    /\ executions' = RowsAfterExit(executions, p.pid)
    /\ UNCHANGED <<init, now, memo, clusters, auditlogs, lock, pc, req, locals, err, status,
                   faulted, lost, fx>>

\* The steps of a create request that need no second create request.
CreateStepAlone(r) ==
    \/ CStart(r)
    \/ CAcquire(r)
    \/ CAcquireError(r)
    \/ CCheckExisting(r)
    \/ CDeleteExecutions(r)
    \/ CDeleteCluster(r)
    \/ CCommitDelete(r)
    \/ CInventoryOk(r)
    \/ CInventoryFail(r)
    \/ CCredentialsOk(r)
    \/ CCredentialsFail(r)
    \/ CInsertCluster(r)
    \/ CInsertExecution(r)
    \/ CLaunch(r)
    \/ CRecordPid(r)
    \/ CStepFails(r)
    \/ CInnerExcept(r)
    \/ CInnerExceptFails(r)
    \/ CRelease(r)
    \/ COuterExcept(r)
    \/ COuterExceptFails(r)
    \/ CCrash(r)

-----------------------------------------------------------------------------
(* POST /update_service_account: update_service_account, routes.py 366-497 *)

\* The payloads of POST /update_service_account that are tried.
UpdateInputs ==
    {[name |-> n, force |-> FALSE, kube |-> k, path |-> ~k, sa |-> a,
      auth |-> TRUE] : n \in ValidNames, k \in BOOLEAN, a \in ServiceAccounts}
    \cup {[name |-> "a", force |-> FALSE, kube |-> FALSE, path |-> FALSE,
           sa |-> "sa2", auth |-> TRUE]}
    \cup {[name |-> "a--b", force |-> FALSE, kube |-> TRUE, path |-> FALSE,
           sa |-> "sa2", auth |-> TRUE]}
    \cup {NoReq}

\* login_required, then UpdateServiceAccountRequest(**request.json) (382).
UStart(r) ==
    /\ pc[r] = "idle"
    /\ \E q \in UpdateInputs :
         /\ req' = [req EXCEPT ![r] = q]
         /\ IF ~Authenticated(q)
            THEN /\ pc' = [pc EXCEPT ![r] = "done"]
                 /\ err' = [err EXCEPT ![r] = "auth"]
                 /\ status' = [status EXCEPT ![r] = StatusOf("auth")]
            ELSE /\ status' = status
                 /\ IF ValidClusterName(q.name)
                    THEN Goto(r, "u_read")
                    ELSE Raise(r, "pydantic", "u_except")
    /\ UNCHANGED <<init, now, memo, db, lock, processes, locals, faulted, lost, fx>>

\* Cluster.query.filter_by(cluster_name=...).first() (385-387).
URead(r) ==
    /\ pc[r] = "u_read"
    /\ LET id == ClusterIdByName(req[r].name)
       IN IF id = NoRow
          THEN /\ Raise(r, "notfound", "u_except")
               /\ UNCHANGED <<cid, loadedSa>>
          ELSE /\ cid' = [cid EXCEPT ![r] = id]
               /\ loadedSa' = [loadedSa EXCEPT ![r] =
                     (CHOOSE c \in clusters : c.id = id).service_account]
               /\ Goto(r, "u_creds")
    /\ UNCHANGED <<init, now, memo, reported, db, lock, processes, req, existing, eid, proc, seen, status,
                   faulted, lost, fx>>

\* Credentials (390-420): the source resolves, or neither was sent (420).
UCredentials(r) ==
    /\ pc[r] = "u_creds"
    /\ fx' = IF req[r].path THEN Bump(r, "vault") ELSE fx
    /\ seen' = IF req[r].path THEN [seen EXCEPT ![r].vault = "ok"] ELSE seen
    /\ IF req[r].path \/ req[r].kube
       THEN Goto(r, "u_update")
       ELSE Raise(r, "validation", "u_except")
    /\ UNCHANGED <<init, now, memo, reported, db, lock, processes, req, existing, cid, eid, loadedSa, proc, status,
                   faulted, lost>>

\* The secret store fails (396, 416), see CCredentialsFail.
UCredentialsFail(r) ==
    /\ pc[r] = "u_creds"
    /\ req[r].path
    /\ FaultAllowed(r)
    /\ faulted' = [faulted EXCEPT ![r] = TRUE]
    /\ fx' = Bump(r, "vault")
    /\ \E o \in VaultFailures :
         /\ seen' = [seen EXCEPT ![r].vault = o]
         /\ Raise(r, VaultError(o), "u_except")
    /\ UNCHANGED <<init, now, memo, reported, db, lock, processes, req, existing, cid, eid, loadedSa, proc, status,
                   lost>>

\* Variant: the UPDATE sent without its WHERE clause.
WithServiceAccountEverywhere(C, id, sa) ==
    {[c EXCEPT !.service_account = sa] : c \in C}

\* The Cluster table after UPDATE cluster SET service_account = sa WHERE id = id.
WithServiceAccount(C, id, sa) ==
    {IF c.id = id THEN [c EXCEPT !.service_account = sa] ELSE c : c \in C}

\* cluster.service_account = ...; commit (423-424).  No UPDATE is sent when the
\* value is the one loaded; an UPDATE that matches no row is an ORM error.
UUpdateServiceAccount(r) ==
    /\ pc[r] = "u_update"
    /\ IF req[r].sa = loadedSa[r]
       THEN /\ Goto(r, "u_insert")
            /\ UNCHANGED <<clusters, fx>>
       ELSE IF ClusterExists(cid[r])
            THEN /\ clusters' = WithServiceAccount(clusters, cid[r], req[r].sa)
                 /\ fx' = Bump(r, "writes")
                 /\ Goto(r, "u_insert")
            ELSE /\ Raise(r, "internal", "u_except")
                 /\ UNCHANGED <<clusters, fx>>
    /\ UNCHANGED <<init, now, memo, executions, auditlogs, lock, processes, req, locals,
                   status, faulted, lost>>

\* PlaybookExecution(...) added and committed (427-447).
UInsertExecution(r) ==
    /\ pc[r] = "u_insert"
    /\ IF ForeignKeysEnforced /\ ~ClusterExists(cid[r])
       THEN /\ Raise(r, "internal", "u_except")
            /\ UNCHANGED <<executions, eid, fx>>
       ELSE /\ executions' = executions \cup
                   {NewExecution(NextRowId(executions), cid[r],
                                 "update_service_account.yml")}
            /\ eid' = [eid EXCEPT ![r] = NextRowId(executions)]
            /\ fx' = Bump(r, "writes")
            /\ Goto(r, "u_launch")
    /\ UNCHANGED <<init, now, memo, reported, clusters, auditlogs, lock, processes, req, existing, cid,
                   loadedSa, proc, seen, status, faulted, lost>>

\* run_playbook_async starts the process (449-464).
ULaunch(r) ==
    /\ pc[r] = "u_launch"
    /\ processes' = processes \cup {NewProcess}
    /\ proc' = [proc EXCEPT ![r] = NewProcess.pid]
    /\ fx' = Bump(r, "launch")
    /\ Goto(r, "u_record")
    /\ UNCHANGED <<init, now, memo, reported, db, lock, req, existing, cid, eid, loadedSa, seen, status,
                   faulted, lost>>

\* execution.command / pid committed, 202 returned (465-488).
URecordPid(r) ==
    /\ pc[r] = "u_record"
    /\ IF ExecutionExists(eid[r])
       THEN /\ executions' =
                 {IF e.id = eid[r]
                  THEN [e EXCEPT !.pid = proc[r], !.command = "cmd"]
                  ELSE e : e \in executions}
            /\ fx' = Bump(r, "writes")
            /\ pc' = [pc EXCEPT ![r] = "done"]
            /\ status' = [status EXCEPT ![r] = 202]
            /\ UNCHANGED err
       ELSE /\ Raise(r, "internal", "u_except")
            /\ UNCHANGED <<executions, fx, status>>
    /\ UNCHANGED <<init, now, memo, clusters, auditlogs, lock, processes, req, locals,
                   faulted, lost>>

\* A database call or the process spawn raises.
UStepFails(r) ==
    /\ pc[r] \in {"u_read", "u_update", "u_insert", "u_launch", "u_record"}
    /\ FaultAllowed(r)
    /\ faulted' = [faulted EXCEPT ![r] = TRUE]
    /\ Raise(r, "internal", "u_except")
    /\ UNCHANGED <<init, now, memo, db, lock, processes, req, locals, status, lost, fx>>

\* except (490-497): log_request, re-raise.
UExcept(r) ==
    /\ pc[r] = "u_except"
    /\ WriteAudit(r, "update_service_account")
    /\ pc' = [pc EXCEPT ![r] = "done"]
    /\ status' = [status EXCEPT ![r] = StatusOf(err[r])]
    /\ UNCHANGED <<init, now, memo, clusters, executions, lock, processes, req, locals, err,
                   faulted, lost>>

UExceptFails(r) ==
    /\ pc[r] = "u_except"
    /\ FaultAllowed(r)
    /\ faulted' = [faulted EXCEPT ![r] = TRUE]
    /\ err' = [err EXCEPT ![r] = "internal"]
    /\ pc' = [pc EXCEPT ![r] = "done"]
    /\ status' = [status EXCEPT ![r] = StatusOf("internal")]
    /\ fx' = Bump(r, "logfail")
    /\ UNCHANGED <<init, now, memo, db, lock, processes, req, locals, lost>>

UpdateStep(r) ==
    \/ UStart(r)
    \/ URead(r)
    \/ UCredentials(r)
    \/ UCredentialsFail(r)
    \/ UUpdateServiceAccount(r)
    \/ UInsertExecution(r)
    \/ ULaunch(r)
    \/ URecordPid(r)
    \/ UStepFails(r)
    \/ UExcept(r)
    \/ UExceptFails(r)

-----------------------------------------------------------------------------
(* GET /check_cluster_status/<name> (500-547), GET /check_status (550-590)  *)

\* The requests that are tried: either endpoint, any name, with and without a
\* valid bearer token.
StatusInputs ==
    {[endpoint |-> "check_cluster_status", name |-> n, auth |-> a] :
        n \in NameInputs, a \in BOOLEAN}
    \cup {[endpoint |-> "check_status", name |-> "a", auth |-> a] :
             a \in BOOLEAN}

\* PlaybookExecution.query.filter_by(cluster_id=cluster.id) (527, 570).
\* Variant: the filter left out.
ExecutionsOfAnyCluster(E, c) == E

ExecutionsOf(E, c) == {e \in E : e.cluster_id = c}

\* .order_by(PlaybookExecution.start_time.desc()).first() (528-529, 571-572):
\* the rows that may come first.  The ORDER BY names the start time only, so
\* SQL leaves the order of rows with equal start times to the engine.
FirstByStartTimeDesc(R) == {e \in R : \A o \in R : o.start_time <= e.start_time}

\* latest_execution.to_dict() if latest_execution else None (536, 579): the
\* ids that may be reported for cluster c, NoRow standing for None.
LatestIds(E, c) ==
    IF ExecutionsOf(E, c) = {} THEN {NoRow}
    ELSE {e.id : e \in FirstByStartTimeDesc(ExecutionsOf(E, c))}

StatusEntry(c, e) == [cluster_id |-> c, execution_id |-> e]

\* The decorators run outermost first (500-503): cache.memoize answers from
\* the cache when it holds a response for the name; otherwise login_required
\* verifies the token and the handler body runs.  check_status (550-552) is
\* not memoized.
SStart(r) ==
    /\ pc[r] = "idle"
    /\ \E q \in StatusInputs :
         /\ req' = [req EXCEPT ![r] = q]
         /\ IF q.endpoint = "check_cluster_status" /\ memo[q.name] # NoReport
            THEN /\ reported' = [reported EXCEPT ![r] = memo[q.name]]
                 /\ pc' = [pc EXCEPT ![r] = "done"]
                 /\ status' = [status EXCEPT ![r] = 200]
                 /\ UNCHANGED err
            ELSE /\ UNCHANGED reported
                 /\ IF ~Authenticated(q)
                    THEN /\ pc' = [pc EXCEPT ![r] = "done"]
                         /\ err' = [err EXCEPT ![r] = "auth"]
                         /\ status' = [status EXCEPT ![r] = StatusOf("auth")]
                    ELSE /\ status' = status
                         /\ IF q.endpoint = "check_cluster_status"
                            THEN Goto(r, "s_cluster")
                            ELSE Goto(r, "s_all")
    /\ UNCHANGED <<init, db, lock, processes, existing, cid, eid, loadedSa, proc,
                   seen, faulted, lost, fx, now, memo>>

\* Cluster.query.filter_by(cluster_name=cluster_name).first() (521-523).
SReadCluster(r) ==
    /\ pc[r] = "s_cluster"
    /\ LET id == ClusterIdByName(req[r].name)
       IN IF id = NoRow
          THEN /\ Raise(r, "notfound", "s_except")
               /\ UNCHANGED cid
          ELSE /\ cid' = [cid EXCEPT ![r] = id]
               /\ Goto(r, "s_latest")
    /\ UNCHANGED <<init, db, lock, processes, req, existing, eid, loadedSa, proc,
                   seen, status, faulted, lost, fx, now, memo, reported>>

\* The latest execution is read and the response returned (525-541); memoize
\* stores the response under the name for 60 seconds.
SReadLatest(r) ==
    /\ pc[r] = "s_latest"
    /\ \E e \in LatestIds(executions, cid[r]) :
         /\ reported' = [reported EXCEPT ![r] = {StatusEntry(cid[r], e)}]
         /\ memo' = [memo EXCEPT ![req[r].name] = {StatusEntry(cid[r], e)}]
    /\ pc' = [pc EXCEPT ![r] = "done"]
    /\ status' = [status EXCEPT ![r] = 200]
    /\ UNCHANGED <<init, db, lock, processes, req, existing, cid, eid, loadedSa,
                   proc, seen, err, faulted, lost, fx, now>>

\* check_status (564-585): Cluster.query.all(), then the latest execution of
\* each cluster.
SReadAll(r) ==
    /\ pc[r] = "s_all"
    /\ LET ids == {c.id : c \in clusters}
       IN \E f \in [ids -> UNION {LatestIds(executions, c) : c \in ids}] :
            /\ \A c \in ids : f[c] \in LatestIds(executions, c)
            /\ reported' = [reported EXCEPT ![r] =
                                {StatusEntry(c, f[c]) : c \in ids}]
    /\ pc' = [pc EXCEPT ![r] = "done"]
    /\ status' = [status EXCEPT ![r] = 200]
    /\ UNCHANGED <<init, db, lock, processes, req, existing, cid, eid, loadedSa,
                   proc, seen, err, faulted, lost, fx, now, memo>>

\* A database query of the handler raises.
SStepFails(r) ==
    /\ pc[r] \in {"s_cluster", "s_latest", "s_all"}
    /\ FaultAllowed(r)
    /\ faulted' = [faulted EXCEPT ![r] = TRUE]
    /\ Raise(r, "internal", "s_except")
    /\ UNCHANGED <<init, db, lock, processes, req, locals, status, lost, fx, now,
                   memo>>

\* except (543-547, 587-590): log_request, re-raise.  memoize stores nothing
\* for a call that raised.
SExcept(r) ==
    /\ pc[r] = "s_except"
    /\ WriteAudit(r, req[r].endpoint)
    /\ pc' = [pc EXCEPT ![r] = "done"]
    /\ status' = [status EXCEPT ![r] = StatusOf(err[r])]
    /\ UNCHANGED <<init, clusters, executions, lock, processes, req, locals, err,
                   faulted, lost, now, memo>>

\* The memoized response of a name reaches its timeout (501: 60 seconds).
MemoExpires(n) ==
    /\ memo[n] # NoReport
    /\ memo' = [memo EXCEPT ![n] = NoReport]
    /\ UNCHANGED <<init, db, lock, processes, pc, req, locals, err, status, faulted,
                   lost, fx, now>>

\* The wall clock is read again: it has moved, forward or (when the host's
\* clock was stepped) backward.
ClockMoves ==
    /\ \E t \in Times \ {now} : now' = t
    /\ UNCHANGED <<init, db, lock, processes, pc, req, locals, err, status, faulted,
                   lost, fx, memo>>

-----------------------------------------------------------------------------
(* GET /health: health_check, routes.py 594-679                            *)

\* The dependencies checked, in the order of the handler's four try blocks.
Services == <<"database", "vault", "redis", "keycloak">>
ServiceNames == {Services[k] : k \in DOMAIN Services}

\* health_status as initialised (607-616).
InitialHealth ==
    [status |-> "healthy", services |-> [s \in ServiceNames |-> "unknown"]]

\* What a check met: the dependency answered, or the try block raised (an
\* error, a status other than 200, the 5 second timeout).
CheckOutcomes == {"ok", "failed"}
NotChecked == [s \in ServiceNames |-> "none"]

HealthPc(k) == IF k \in DOMAIN Services THEN "h_" \o Services[k] ELSE "h_respond"

\* Variant: the first failing check ends the handler's checks.
AfterFailedCheckStops(k) == "h_respond"

\* Each check has its own try / except (618-675): after an except block the
\* handler goes on with the next check.
AfterFailedCheck(k) == HealthPc(k + 1)

\* cache.cached(timeout=30) (596): a stored response is returned as it is;
\* otherwise the handler starts with health_status "healthy".  No
\* login_required on this view.
HStart(r) ==
    /\ pc[r] = "idle"
    /\ IF memo["/health"] # NoReport
       THEN /\ \E m \in memo["/health"] :
                 /\ reported' = [reported EXCEPT ![r] = m.body]
                 /\ status' = [status EXCEPT ![r] = m.code]
            /\ pc' = [pc EXCEPT ![r] = "done"]
            /\ seen' = seen
       ELSE /\ reported' = [reported EXCEPT ![r] = InitialHealth]
            /\ seen' = [seen EXCEPT ![r] = NotChecked]
            /\ pc' = [pc EXCEPT ![r] = HealthPc(1)]
            /\ status' = status
    /\ UNCHANGED <<init, db, lock, processes, req, existing, cid, eid, loadedSa, proc,
                   err, faulted, lost, fx, now, memo>>

\* The k-th check succeeds: its entry becomes "healthy" (622-625, 638-641,
\* 652-655, 668-671).
HCheckOk(r, k) ==
    /\ k \in DOMAIN Services
    /\ pc[r] = HealthPc(k)
    /\ seen' = [seen EXCEPT ![r][Services[k]] = "ok"]
    /\ reported' = [reported EXCEPT ![r].services[Services[k]] = "healthy"]
    /\ pc' = [pc EXCEPT ![r] = HealthPc(k + 1)]
    /\ UNCHANGED <<init, db, lock, processes, req, existing, cid, eid, loadedSa, proc,
                   err, status, faulted, lost, fx, now, memo>>

\* The k-th check raises: its entry and the overall status become
\* "unhealthy" (626-628, 644-646, 656-658, 674-676).
HCheckFails(r, k) ==
    /\ k \in DOMAIN Services
    /\ pc[r] = HealthPc(k)
    /\ seen' = [seen EXCEPT ![r][Services[k]] = "failed"]
    /\ reported' = [reported EXCEPT ![r].services[Services[k]] = "unhealthy",
                                    ![r].status = "unhealthy"]
    /\ pc' = [pc EXCEPT ![r] = AfterFailedCheck(k)]
    /\ UNCHANGED <<init, db, lock, processes, req, existing, cid, eid, loadedSa, proc,
                   err, status, faulted, lost, fx, now, memo>>

\* 200 if the overall status is still "healthy", else 503 (678-679); the
\* response is stored in the cache whatever its status.
HRespond(r) ==
    /\ pc[r] = "h_respond"
    /\ LET code == IF reported[r].status = "healthy" THEN 200 ELSE 503
       IN /\ status' = [status EXCEPT ![r] = code]
          /\ memo' = [memo EXCEPT !["/health"] =
                                     {[body |-> reported[r], code |-> code]}]
    /\ pc' = [pc EXCEPT ![r] = "done"]
    /\ UNCHANGED <<init, db, lock, processes, req, locals, err, faulted, lost, fx, now>>

HealthStep(r) ==
    \/ HStart(r)
    \/ \E k \in DOMAIN Services : HCheckOk(r, k)
    \/ \E k \in DOMAIN Services : HCheckFails(r, k)
    \/ HRespond(r)

StatusStep(r) ==
    \/ SStart(r)
    \/ SReadCluster(r)
    \/ SReadLatest(r)
    \/ SReadAll(r)
    \/ SStepFails(r)
    \/ SExcept(r)

-----------------------------------------------------------------------------
(* AnsibleInitializer, init_playbooks.py 179-212 and 431-458               *)

\* How one call of clone_or_pull_repo's body ends: the pull or clone works;
\* git reports "Repository not found" and create_default_repo works or raises;
\* another git error; another exception.
AttemptOutcomes == {"synced", "default_created", "default_failed", "git_error",
                    "error"}
AttemptSucceeds(o) == o \in {"synced", "default_created"}

\* Variant: retry without a stop condition.
StopRetryingNever(n) == FALSE

\* tenacity stop_after_attempt(3): no further attempt after the n-th one
\* raised when n has reached 3.
StopRetrying(n) == n >= RetryAttempts

\* The other members of vars, which the initializer does not touch.
requestVars == <<db, lock, processes, pc, req, locals, err, status, faulted,
                 lost, fx, now, memo>>

\* initialize() is called (437-441).
IStart ==
    /\ init.pc = "idle"
    /\ init' = [init EXCEPT !.pc = "attempt"]
    /\ UNCHANGED requestVars

\* One attempt of clone_or_pull_repo (190-212) that returns: the repository
\* was pulled or cloned (202), or git said "Repository not found" and
\* create_default_repo returned (204-206).
IAttemptReturns ==
    /\ init.pc = "attempt"
    /\ \E o \in {x \in AttemptOutcomes : AttemptSucceeds(x)} :
         init' = [init EXCEPT !.pc = "galaxy",
                              !.log = Append(@, o),
                              !.default_repo = (o = "default_created")]
    /\ UNCHANGED requestVars

\* One attempt that raises (206 when create_default_repo raises, 209, 212):
\* retried after the wait unless it was the last one allowed, after which the
\* retry decorator raises and initialize() re-raises (456-458).
IAttemptRaises ==
    /\ init.pc = "attempt"
    /\ \E o \in {x \in AttemptOutcomes : ~AttemptSucceeds(x)} :
         init' = [init EXCEPT !.log = Append(@, o),
                              !.pc = IF StopRetrying(Len(init.log) + 1)
                                     THEN "raised" ELSE "attempt"]
    /\ UNCHANGED requestVars

\* read_requirements and install_galaxy_requirements (444-445).
IGalaxy ==
    /\ init.pc = "galaxy"
    /\ init' = [init EXCEPT !.pc = "verify", !.galaxy = TRUE]
    /\ UNCHANGED requestVars

\* verify_playbooks (448); playbooks.yml exists or not (451).
IVerify ==
    /\ init.pc = "verify"
    /\ \E to \in {"save", "returned"} :
         init' = [init EXCEPT !.pc = to, !.verified = TRUE]
    /\ UNCHANGED requestVars

\* save_playbook_config (452), return True (455).
ISave ==
    /\ init.pc = "save"
    /\ init' = [init EXCEPT !.pc = "returned", !.saved = TRUE]
    /\ UNCHANGED requestVars

\* A step after the repository sync raises (385-387, 415-420, 427):
\* initialize() re-raises (456-458).
IStepRaises ==
    /\ init.pc \in {"galaxy", "verify", "save"}
    /\ init' = [init EXCEPT !.pc = "raised"]
    /\ UNCHANGED requestVars

NextInit ==
    \/ IStart
    \/ IAttemptReturns
    \/ IAttemptRaises
    \/ IGalaxy
    \/ IVerify
    \/ ISave
    \/ IStepRaises

SpecInit == Init /\ [][NextInit]_vars

-----------------------------------------------------------------------------
\* Concurrent create requests.
Next ==
    \/ \E r \in Creators : CreateStepAlone(r)
    \/ \E r \in Creators : CAcquireTimeout(r)
    \/ \E n \in ValidNames : LockExpires(n)

Spec == Init /\ [][Next]_vars

\* One create request racing update_service_account requests, the started
\* playbook processes exiting when they like.
SoloCreators == {1}

NextU ==
    \/ \E r \in SoloCreators : CreateStepAlone(r)
    \/ \E r \in Updaters : UpdateStep(r)
    \/ \E n \in ValidNames : LockExpires(n)
    \/ \E p \in processes : ProcessExits(p)

SpecU == Init /\ [][NextU]_vars

\* One create request on its own, every call of its handler returning in the
\* end: each await of the handler is bounded (the lock wait by blocking_timeout,
\* the inventory call by its timeout) or is a local database call.
NextSolo ==
    \/ \E r \in SoloCreators : CreateStepAlone(r)
    \/ \E n \in ValidNames : LockExpires(n)

FairSolo ==
    /\ Init
    /\ [][NextSolo]_vars
    /\ \A r \in SoloCreators : WF_vars(CreateStepAlone(r))

\* Status requests racing update_service_account requests over a table that
\* holds two clusters, each with the execution that created it; "b" was
\* created after "a".
InitStatus ==
    /\ clusters = InitialClusters \cup
                    {[id |-> 2, name |-> "b", service_account |-> "sa1",
                      status |-> "creating"]}
    /\ executions = {[id |-> c, cluster_id |-> c,
                      playbook_name |-> "create_cluster.yml",
                      status |-> "running", pid |-> c, command |-> "cmd",
                      return_code |-> "none", completed_at |-> "none",
                      start_time |-> c + 1] : c \in {1, 2}}
    /\ auditlogs = {}
    /\ lock = [n \in ValidNames |-> NoLockHolder]
    /\ processes = {[pid |-> p, running |-> TRUE] : p \in {1, 2}}
    /\ pc = [r \in Requests |-> "idle"]
    /\ req = [r \in Requests |-> NoReq]
    /\ existing = [r \in Requests |-> NoRow]
    /\ cid = [r \in Requests |-> NoRow]
    /\ eid = [r \in Requests |-> NoRow]
    /\ err = [r \in Requests |-> "none"]
    /\ status = [r \in Requests |-> 0]
    /\ faulted = [r \in Requests |-> FALSE]
    /\ lost = [r \in Requests |-> FALSE]
    /\ fx = [r \in Requests |-> NoFx]
    /\ loadedSa = [r \in Requests |-> "none"]
    /\ proc = [r \in Requests |-> NoRow]
    /\ seen = [r \in Requests |-> NoAnswer]
    /\ now = 3
    /\ memo = [n \in CacheKeys |-> NoReport]
    /\ reported = [r \in Requests |-> NoReport]
    /\ init = NotInitialized

NextStatus ==
    \/ \E r \in Updaters : UpdateStep(r)
    \/ \E r \in Readers : StatusStep(r)
    \/ \E n \in ValidNames : MemoExpires(n)
    \/ ClockMoves

SpecStatus == InitStatus /\ [][NextStatus]_vars

\* Health checks, the stored response expiring when it likes.
NextHealth ==
    \/ \E r \in Probes : HealthStep(r)
    \/ MemoExpires("/health")

SpecHealth == Init /\ [][NextHealth]_vars

-----------------------------------------------------------------------------
(* Properties                                                              *)

\* Positions of the create handler between lock.acquire and lock.release.
SectionPcs ==
    {"check", "del_exec", "del_cluster", "commit_delete", "inventory", "creds",
     "insert_cluster", "insert_exec", "launch", "record_pid", "inner_except",
     "release"}

InSection(r) == pc[r] \in SectionPcs

HoldsLock(r) == \E n \in ValidNames : lock[n] = r

\* r was answered with the ValidationError of the lock wait (routes.py 186).
LockTimedOut(r) ==
    pc[r] = "done" /\ err[r] = "validation" /\ fx[r].acq = 1 /\ fx[r].got = 0

\* r is a terminated, authenticated, well-formed create request for n
\* that did not send force.
PlainCreate(r, n) ==
    /\ pc[r] = "done"
    /\ Authenticated(req[r])
    /\ req[r].name = n
    /\ req[r].kube # req[r].path
    /\ ~req[r].force

\* C1: of two create requests for the same name that is not in the table at
\* the start, both without force, never both are answered 201; and when no
\* collaborator call of either failed and neither lock expired, exactly one is
\* answered 201 and the other 409 or the lock-wait ValidationError.
C1_AtMostOneCreated ==
    \A n \in ValidNames : \A r1, r2 \in Creators :
        ( /\ r1 # r2
          /\ PlainCreate(r1, n)
          /\ PlainCreate(r2, n)
          /\ \A c \in InitialClusters : c.name # n )
        => /\ ~(status[r1] = 201 /\ status[r2] = 201)
           /\ (~Disturbed(r1) /\ ~Disturbed(r2))
                => /\ status[r1] = 201 \/ status[r2] = 201
                   /\ status[r1] = 201
                        => (status[r2] = 409 \/ LockTimedOut(r2))

\* Two create requests for "b" have terminated, one with 201 and the other one
\* with the lock-wait error.
C1_Witness ==
    \E r1, r2 \in Creators :
        /\ r1 # r2
        /\ PlainCreate(r1, "b") /\ PlainCreate(r2, "b")
        /\ ~Disturbed(r1) /\ ~Disturbed(r2)
        /\ status[r1] = 201
        /\ LockTimedOut(r2)

\* C2: two create requests for the same name are never both between
\* lock.acquire and lock.release, unless the lock of one of them expired.
C2_MutualExclusion ==
    \A r1, r2 \in Creators :
        (r1 # r2 /\ InSection(r1) /\ InSection(r2)
                 /\ req[r1].name = req[r2].name)
        => (lost[r1] \/ lost[r2])

\* One request is inside the section while the other one, for the same name,
\* waits for the lock.
C2_Witness ==
    \E r1, r2 \in Creators :
        /\ r1 # r2
        /\ pc[r1] = "insert_exec" /\ ~lost[r1]
        /\ pc[r2] = "acquire"
        /\ req[r1].name = req[r2].name

\* C3: a create request that acquired the lock has called lock.release() once
\* when it has terminated and holds the lock no more, whatever step failed; and
\* a request that holds the lock gives it up in the end (or its worker died).
C3_LockReleased ==
    /\ [](\A r \in Creators :
            (pc[r] = "done" /\ fx[r].got = 1)
              => (fx[r].rel = 1 /\ ~HoldsLock(r)))
    /\ \A r \in Creators :
         HoldsLock(r) ~> (~HoldsLock(r) \/ pc[r] = "crashed")

\* A request took the lock, a later step failed, both audit writes failed as
\* well, and the lock is free again.
C3_Witness ==
    \E r \in Creators :
        /\ pc[r] = "done"
        /\ fx[r].got = 1 /\ fx[r].rel = 1
        /\ status[r] = 500
        /\ fx[r].audits = 0
        /\ LockFree(req[r].name)

\* C4: a create request sent with force=true that found a row of its name and
\* committed the delete has, once it has terminated, left exactly one Cluster
\* row of that name, the one it inserted, and exactly one PlaybookExecution
\* row that references it.
C4_ForceReplaces ==
    \A r \in Creators :
        ( /\ pc[r] = "done"
          /\ req[r].force
          /\ existing[r] # NoRow
          /\ fx[r].writes >= 1 )
        => /\ cid[r] # NoRow
           /\ {c.id : c \in {x \in clusters : x.name = req[r].name}} = {cid[r]}
           /\ Cardinality({e \in executions : e.cluster_id = cid[r]}) = 1

\* C5: every step either leaves each PlaybookExecution row of a cluster in
\* place, or removes the Cluster row together with all of them: no committed
\* state shows the row without its executions gone, or part of them gone.
C5_AtomicDelete ==
    [][\A c \in clusters :
         LET old == {e.id : e \in {x \in executions : x.cluster_id = c.id}}
             left == old \cap {e.id : e \in executions'}
             gone == \A d \in clusters' : d.id # c.id
         IN IF gone THEN left = {} ELSE left = old]_vars

\* The worker of one force request died between the two deletes and the rows
\* were all still there; after its lock expired a second force request
\* committed the delete: the row and every row that referenced it are gone.
C5_Witness ==
    \E r1, r2 \in Creators :
        /\ pc[r1] = "crashed"
        /\ pc[r2] = "inventory"
        /\ req[r2].force /\ existing[r2] # NoRow
        /\ ~ClusterExists(existing[r2])
        /\ \A e \in executions : e.cluster_id # existing[r2]

\* C6: every PlaybookExecution row references a Cluster row that exists.
C6_NoOrphanExecution ==
    \A e \in executions : ClusterExists(e.cluster_id)

\* C7: no two Cluster rows carry the same name.
C7_UniqueName ==
    \A c1, c2 \in clusters : c1.name = c2.name => c1 = c2

\* A request whose existence check found nothing (the other request's lock had
\* expired) is refused by the unique constraint when it inserts its row.
C7_Witness ==
    \E r \in Creators :
        /\ pc[r] = "inner_except"
        /\ err[r] = "internal"
        /\ ~faulted[r]
        /\ existing[r] = NoRow /\ cid[r] = NoRow
        /\ fx[r].inv = 1
        /\ NameTaken(req[r].name)

\* C8: a create request without force whose existence check finds a row is
\* answered 409 (no collaborator call of it failing, its lock not expiring);
\* it calls neither the inventory nor the secret store, starts no process, and
\* none of its steps changes the Cluster or the PlaybookExecution table.
C8_ExistingRefused ==
    /\ [](\A r \in Creators :
            (Authenticated(req[r]) /\ ~req[r].force /\ existing[r] # NoRow)
              => /\ fx[r].inv = 0 /\ fx[r].vault = 0 /\ fx[r].launch = 0
                 /\ fx[r].writes = 0
                 /\ (pc[r] = "done" /\ ~Disturbed(r)) => status[r] = 409)
    /\ [][\A r \in Creators :
            (pc'[r] # pc[r] /\ ~req'[r].force /\ existing'[r] # NoRow)
              => /\ clusters' = clusters
                 /\ executions' = executions
                 /\ processes' = processes]_vars

\* A request for the existing name "a" without force has been answered 409.
C8_Witness ==
    \E r \in Creators :
        /\ pc[r] = "done"
        /\ req[r].name = "a" /\ ~req[r].force
        /\ existing[r] # NoRow
        /\ status[r] = 409
        /\ clusters = InitialClusters

C10_InvalidRejectedFirst ==
    \A r \in Creators :
        ( /\ pc[r] # "idle"
          /\ Authenticated(req[r])
          /\ (req[r].name \notin ValidNames \/ req[r].kube = req[r].path) )
        => /\ fx[r].acq = 0 /\ fx[r].got = 0 /\ fx[r].rel = 0
           /\ fx[r].inv = 0 /\ fx[r].vault = 0
           /\ fx[r].launch = 0 /\ fx[r].writes = 0
           /\ (pc[r] = "done" /\ ~faulted[r]) => status[r] = 400

\* A request carrying both kubeconfig and kubeconfig_vault_path has been
\* answered 400 without any lock call.
C10_Witness ==
    \E r \in Creators :
        /\ pc[r] = "done"
        /\ Authenticated(req[r])
        /\ req[r].kube /\ req[r].path
        /\ status[r] = 400
        /\ fx[r].acq = 0
        /\ fx[r].audits = 1

\* C11: a create request whose lock.acquire was refused asks for the lock once
\* only, never calls release, the inventory or the secret store, starts no
\* process and commits nothing but at most one audit row; none of its steps
\* changes the Cluster table, the PlaybookExecution table or the lock.  It is
\* answered with the ValidationError of the lock wait (400) after exactly one
\* audit row, unless a call of it failed.
C11_LockRefusedFailsFast ==
    /\ [](\A r \in Creators :
            (pc[r] \in {"outer_except", "done"}
               /\ fx[r].acq >= 1 /\ fx[r].got = 0)
              => /\ fx[r].acq = 1 /\ fx[r].rel = 0
                 /\ fx[r].inv = 0 /\ fx[r].vault = 0 /\ fx[r].launch = 0
                 /\ fx[r].writes = 0 /\ fx[r].audits <= 1
                 /\ cid[r] = NoRow /\ eid[r] = NoRow
                 /\ ~HoldsLock(r)
                 /\ (pc[r] = "done" /\ ~faulted[r])
                      => /\ status[r] = 400 /\ err[r] = "validation"
                         /\ fx[r].audits = 1)
    /\ [][\A r \in Creators :
            (pc'[r] # pc[r] /\ fx'[r].acq >= 1 /\ fx'[r].got = 0)
              => /\ clusters' = clusters
                 /\ executions' = executions
                 /\ processes' = processes
                 /\ lock' = lock]_vars

\* A request was refused the lock and answered 400 while the other request, for
\* the same name, still holds it.
C11_Witness ==
    \E r1, r2 \in Creators :
        /\ r1 # r2
        /\ LockTimedOut(r1) /\ status[r1] = 400
        /\ fx[r1].audits = 1 /\ fx[r1].rel = 0
        /\ req[r2].name = req[r1].name
        /\ lock[req[r1].name] = r2

\* C12: a create request whose inventory lookup failed has asked the inventory
\* once, has inserted no Cluster and no PlaybookExecution row and started no
\* process, and no later step of it changes the two tables; when both audit
\* writes succeeded and its lock did not expire it is answered 404 if the
\* inventory answered 404, and 503 for any other status, a ClientError or a
\* timeout.
C12_InventoryFailure ==
    /\ [](\A r \in Creators :
            seen[r].inv \in InventoryFailures
              => /\ fx[r].inv = 1
                 /\ cid[r] = NoRow /\ eid[r] = NoRow
                 /\ fx[r].vault = 0 /\ fx[r].launch = 0
                 /\ err[r] # "none"
                 /\ (pc[r] = "done" /\ fx[r].audits = 2 /\ ~lost[r])
                      => /\ seen[r].inv = "404"
                           => (status[r] = 404 /\ err[r] = "notfound")
                         /\ seen[r].inv # "404"
                           => (status[r] = 503 /\ err[r] = "ext_inventory"))
    /\ [][\A r \in Creators :
            (pc'[r] # pc[r] /\ seen'[r].inv \in InventoryFailures)
              => /\ clusters' = clusters
                 /\ executions' = executions
                 /\ processes' = processes]_vars

\* A request for the new name "b" was answered 404 after the inventory said
\* 404, both audit rows were written, and the tables hold what they held.
C12_Witness ==
    \E r \in Creators :
        /\ pc[r] = "done" /\ req[r].name = "b"
        /\ seen[r].inv = "404" /\ status[r] = 404
        /\ fx[r].audits = 2 /\ fx[r].rel = 1
        /\ clusters = InitialClusters

\* C13: a create request that took its credentials from the secret store is
\* answered 400 (validation) when the secret was read but holds no kubeconfig,
\* and 503 (external service "vault") when the token read or the secret read
\* failed; both audit writes succeeding and the lock not expiring.
C13_MissingKubeconfigIsValidation ==
    \A r \in Creators :
        (pc[r] = "done" /\ fx[r].audits = 2 /\ ~lost[r])
        => /\ seen[r].vault = "no_kubeconfig"
                => (status[r] = 400 /\ err[r] = "validation")
           /\ seen[r].vault \in {"token", "read"}
                => (status[r] = 503 /\ err[r] = "ext_vault")

\* The AuditLog rows the except clauses of the create handler have written.
CreateErrorRows ==
    {a \in auditlogs : a.action = "create_cluster" /\ a.status = "error"}

C15_OneAuditRow ==
    \A r \in Creators :
        (pc[r] = "done" /\ Authenticated(req[r]) /\ fx[r].logfail = 0)
        => fx[r].audits = 1

\* C16: within a create request the Cluster row is committed before the
\* PlaybookExecution row, that row is committed with an empty command and no
\* pid before the process is started, the process is started once, command and
\* pid are written after that by the request that started it, and 201 comes
\* last.  No execution row carries a command or a pid without a started
\* process.
C16_LaunchOrder ==
    /\ [](/\ \A r \in Creators :
               /\ eid[r] # NoRow => cid[r] # NoRow
               /\ fx[r].launch >= 1 => (eid[r] # NoRow /\ fx[r].launch = 1)
               /\ pc[r] = "record_pid" => fx[r].launch = 1
               /\ status[r] = 201
                    => /\ fx[r].launch = 1
                       /\ fx[r].writes =
                            3 + (IF existing[r] # NoRow THEN 1 ELSE 0)
          /\ \A e \in executions :
               (e.pid # NoRow \/ e.command # "")
                 => (e.pid \in Pids /\ e.command # ""))
    /\ [][/\ \A e2 \in executions' :
               (\A e \in executions : e.id # e2.id)
                 => /\ e2.pid = NoRow /\ e2.command = ""
                    /\ \E r \in Creators :
                         /\ pc[r] = "insert_exec" /\ pc'[r] = "launch"
                         /\ e2.cluster_id = cid[r] /\ cid[r] # NoRow
                         /\ fx[r].launch = 0
          /\ \A e \in executions : \A e2 \in executions' :
               (e.id = e2.id /\ e2.pid # e.pid)
                 => \E r \in Creators :
                      /\ pc[r] = "record_pid" /\ eid[r] = e.id
                      /\ fx[r].launch = 1 /\ status[r] = 0
          /\ \A r \in Creators :
               fx'[r].launch # fx[r].launch
                 => (cid[r] # NoRow /\ eid[r] # NoRow /\ status[r] = 0)]_vars

\* A request was answered 201; its execution row carries the pid of a started
\* process and the command line.
C16_Witness ==
    \E r \in Creators :
        /\ status[r] = 201 /\ fx[r].launch = 1
        /\ ClusterExists(cid[r])
        /\ \E e \in executions :
             /\ e.id = eid[r] /\ e.cluster_id = cid[r]
             /\ e.pid # NoRow /\ e.pid \in Pids /\ e.command = "cmd"

\* The process with pid n has exited.
Exited(n) == \E p \in processes : p.pid = n /\ ~p.running

\* C17: a request that has started its process can write the pid, release the
\* lock and respond while that process is still running; every
\* PlaybookExecution row has status "running", no return code and no
\* completion time, no step changes any of the three, and the exit of a
\* process changes no table, no lock and no request.
C17_NoWaitForProcess ==
    /\ [](/\ \A e \in executions :
               /\ e.status = "running"
               /\ e.return_code = "none" /\ e.completed_at = "none"
          /\ \A r \in SoloCreators :
               (proc[r] # NoRow /\ ~Exited(proc[r]))
                 => /\ pc[r] = "record_pid" => ENABLED CRecordPid(r)
                    /\ pc[r] = "release" => ENABLED CRelease(r)
          /\ \A u \in Updaters :
               (pc[u] = "u_record" /\ ~Exited(proc[u]))
                 => ENABLED URecordPid(u))
    /\ [][\A e \in executions : \A e2 \in executions' :
            e.id = e2.id
              => /\ e2.status = e.status
                 /\ e2.return_code = e.return_code
                 /\ e2.completed_at = e.completed_at]_vars
    /\ [][(\E p \in processes : p \notin processes')
            => (db' = db /\ pc' = pc /\ status' = status /\ lock' = lock)]_vars

\* The create request was answered 201 and has released its lock while its
\* process still runs; the process of the update request, answered 202, has
\* exited and its row still says "running".
C17_Witness ==
    \E r \in SoloCreators : \E u \in Updaters :
        /\ status[r] = 201 /\ ~HoldsLock(r)
        /\ proc[r] # NoRow /\ ~Exited(proc[r])
        /\ status[u] = 202
        /\ Exited(proc[u])
        /\ \E e \in executions :
             e.id = eid[u] /\ e.pid = proc[u] /\ e.status = "running"

\* The status response of r is delivered in this step.
Answers(r) == status[r] = 0 /\ status'[r] = 200

\* The clusters the response of r is about.
AskedClusters(r) ==
    IF req'[r].endpoint = "check_status" THEN {c.id : c \in clusters}
    ELSE {ClusterIdByName(req'[r].name)}

\* Entry x names an execution of its own cluster that no execution of that
\* cluster started after, or none when the cluster has no execution.
NamesLatest(x) ==
    IF \A e \in executions : e.cluster_id # x.cluster_id
    THEN x.execution_id = NoRow
    ELSE \E e \in executions :
            /\ e.id = x.execution_id
            /\ e.cluster_id = x.cluster_id
            /\ \A o \in executions :
                 o.cluster_id = x.cluster_id => o.start_time <= e.start_time

\* The response has one entry for each cluster asked about, each naming the
\* latest execution of its cluster in the table as it is now.
ReportsLatest(rep, asked) ==
    /\ {x.cluster_id : x \in rep} = asked
    /\ Cardinality(rep) = Cardinality(asked)
    /\ \A x \in rep : NamesLatest(x)

C19_TieBrokenByMaxId ==
    [][\A r \in Readers :
          (Answers(r) /\ pc[r] # "idle") =>
              \A x \in reported'[r] : \A e, o \in executions :
                  ( /\ e.id = x.execution_id
                    /\ o.cluster_id = e.cluster_id
                    /\ o.start_time = e.start_time )
                  => o.id <= e.id]_vars

\* Ids of the Cluster rows this step deletes.
DeletedClusters == {c.id : c \in clusters} \ {c.id : c \in clusters'}

\* C20: a step that deletes a Cluster row deletes with it every
\* PlaybookExecution row and every AuditLog row whose cluster_id is that of the
\* row, and changes nothing else: every other Cluster row, and every
\* PlaybookExecution and AuditLog row of another cluster or of no cluster
\* (cluster_id NULL), is after the step what it was before.
C20_CascadeDelete ==
    [][DeletedClusters # {} =>
          /\ clusters' = {c \in clusters : c.id \notin DeletedClusters}
          /\ executions' = {e \in executions : e.cluster_id \notin DeletedClusters}
          /\ auditlogs' = {l \in auditlogs : l.cluster_id \notin DeletedClusters}]_vars

\* Cluster 1 was deleted by a force request while cluster 2 had an execution
\* and an audit row of no cluster existed: the rows of cluster 1 are gone, the
\* others are there.
C20_Witness ==
    /\ \E r \in Creators :
         pc[r] = "inventory" /\ existing[r] = 1 /\ fx[r].writes = 1
    /\ {c.id : c \in clusters} = {2}
    /\ {e.cluster_id : e \in executions} = {2}
    /\ {l.cluster_id : l \in auditlogs} = {NoRow}

\* A force request has committed the delete of a Cluster row.
DeleteCommitted(q) ==
    req[q].force /\ existing[q] # NoRow /\ fx[q].writes >= 1

\* Update request r is well formed and no collaborator call of it failed.
PlainUpdate(r) ==
    /\ Authenticated(req[r])
    /\ ValidClusterName(req[r].name)
    /\ req[r].kube \/ req[r].path
    /\ ~Disturbed(r)

C22_UnauthenticatedRefused ==
    \A r \in Requests :
        (pc[r] = "done" /\ ~Authenticated(req[r]))
        => /\ status[r] = 401
           /\ fx[r] = NoFx
           /\ cid[r] = NoRow /\ existing[r] = NoRow /\ eid[r] = NoRow
           /\ reported[r] = NoReport

\* C27: every 200 response of GET /check_cluster_status/<name> goes to a
\* request whose bearer token is valid, also when the payload comes from the
\* memoization cache.
C27_StatusOnlyToAuthenticated ==
    \A r \in Readers :
        (status[r] = 200 /\ req[r].endpoint = "check_cluster_status")
        => Authenticated(req[r])

\* C23: a create request that fails is answered with the status of the class
\* of the failure it met: 401 for a refused token, 400 for a payload the
\* validators refuse, 409 for an existing cluster without force, 404 when the
\* inventory does not know the cluster, 503 when the inventory or the secret
\* store failed, 400 when the secret holds no kubeconfig; the audit write and
\* the lock release that follow the failure do not change that status.
C23_ErrorClassKept ==
    \A r \in Creators :
        (pc[r] = "done" /\ status[r] # 201)
        => /\ ~Authenticated(req[r]) => status[r] = 401
           /\ (Authenticated(req[r]) /\ ~ValidCreateRequest(req[r]))
                => status[r] = 400
           /\ (existing[r] # NoRow /\ ~req[r].force) => status[r] = 409
           /\ seen[r].inv = "404" => status[r] = 404
           /\ seen[r].inv \in InventoryFailures \ {"404"} => status[r] = 503
           /\ seen[r].vault \in {"token", "read"} => status[r] = 503
           /\ seen[r].vault = "no_kubeconfig" => status[r] = 400

\* C24: the lock is per cluster name.  A create request waiting for the lock of
\* its name gets it whenever no request holds the lock of that name, whatever
\* locks of other names are held, and is not refused then; requests for
\* different names hold their locks in their sections at the same time.
C24_LocksPerName ==
    \A r \in Creators :
        (pc[r] = "acquire" /\ lock[req[r].name] = NoLockHolder)
        => /\ ENABLED CAcquire(r)
           /\ ~ENABLED CAcquireTimeout(r)

\* Request 1 holds the lock of "a" inside its section, request 2 that of "b",
\* neither lock having expired.
C24_Witness ==
    /\ pc[1] = "insert_cluster" /\ pc[2] = "insert_exec"
    /\ req[1].name = "a" /\ req[2].name = "b"
    /\ lock["a"] = 1 /\ lock["b"] = 2
    /\ ~lost[1] /\ ~lost[2]

\* C25: the response of GET /health has status 200 and overall status
\* "healthy" exactly when every one of the four dependency entries it reports
\* is "healthy", and 503 with "unhealthy" otherwise; every entry is reported
\* (none is left "unknown"), so a failed check did not keep the later ones from
\* running; and the entries of a handler that ran its checks are what the
\* checks met.
C25_HealthReflectsChecks ==
    \A r \in Probes :
        pc[r] = "done" =>
            LET body == reported[r]
                allHealthy == \A s \in ServiceNames : body.services[s] = "healthy"
            IN /\ status[r] \in {200, 503}
               /\ status[r] = 200 <=> allHealthy
               /\ body.status = "healthy" <=> allHealthy
               /\ body.status \in {"healthy", "unhealthy"}
               /\ \A s \in ServiceNames :
                    body.services[s] \in {"healthy", "unhealthy"}
               /\ seen[r] # NoAnswer =>
                    \A s \in ServiceNames :
                        /\ seen[r][s] \in CheckOutcomes
                        /\ body.services[s] = "healthy" <=> seen[r][s] = "ok"

\* The database check failed, the three checks after it ran and succeeded, and
\* the answer was 503.
C25_Witness ==
    \E r \in Probes :
        /\ pc[r] = "done" /\ status[r] = 503
        /\ seen[r] = [database |-> "failed", vault |-> "ok", redis |-> "ok",
                      keycloak |-> "ok"]
        /\ reported[r].services["vault"] = "healthy"
        /\ reported[r].services["keycloak"] = "healthy"

\* C26: a create request whose inventory check or credential resolution failed
\* has written nothing to the Cluster and PlaybookExecution tables, with force
\* as well as without: in particular it has deleted no existing cluster.
C26_FailedLeavesTables ==
    \A r \in Creators :
        (seen[r].inv \in InventoryFailures \/ seen[r].vault \in VaultFailures)
        => /\ fx[r].writes = 0
           /\ existing[r] # NoRow => ClusterExists(existing[r])

\* C28: once a create or update request has terminated, the execution row it
\* inserted, if it is there with status "running", has a pid and a command:
\* no terminated request leaves a running execution whose process never
\* started.
C28_RunningHasProcess ==
    \A r \in SoloCreators \cup Updaters :
        pc[r] = "done" =>
            \A e \in executions :
                (e.id = eid[r] /\ e.cluster_id = cid[r] /\ e.status = "running")
                => (e.pid # NoRow /\ e.command # "")

\* C29: an update request that ended in an error has left the service account
\* of the cluster it loaded at the value it loaded and has inserted no
\* PlaybookExecution row.
C29_FailedUpdateChangesNothing ==
    \A r \in Updaters :
        (pc[r] = "done" /\ status[r] # 202 /\ cid[r] # NoRow)
        => /\ eid[r] = NoRow
           /\ \A c \in clusters :
                c.id = cid[r] => c.service_account = loadedSa[r]

=============================================================================
